---- MODULE Spec2Model ----
(***************************************************************************)
(* Model of the SPI driver of py32f0xx-hal (src/src/spi.rs): the register  *)
(* programming done by the constructors, reset and the width conversions,  *)
(* and the four blocking transfer operations, stepped one status-register  *)
(* poll at a time.                                                         *)
(***************************************************************************)
EXTENDS Integers, Sequences, FiniteSets, TLC

VARIABLES
    pc,         \* position of the driver: "new", constructor/reset/transfer steps, "idle", "panic"
    op,         \* the operation running, or the one that returned last
    hw,         \* the register interface behind the handle: "free", "stall" or "loopback"
    role,       \* "controller" (spi1) or "peripheral" (spi1_slave)
    mode,       \* constructor argument mode: [polarity, phase]
    pclk,       \* constructor argument rcc.clocks.pclk().0 (Hz, u32)
    speed,      \* constructor argument speed.into().0 (Hz, u32)
    width,      \* the WIDTH typestate of the handle: "EightBit" or "SixteenBit"
    rcc,        \* [en, rst]: the spiXen and spiXrst bits of the reset/clock controller
    cr1,        \* control register 1, by named field
    cr2,        \* control register 2, by named field
    saved,      \* reset's locals cr1 and cr2: <<>> before they are read
    pre,        \* the control registers when the running (last) reset was called
    words,      \* the caller's buffer
    orig,       \* the buffer as it was when the call started
    read_pos,   \* transfer<u8>: read_pos
    write_pos,  \* transfer<u8>: write_pos
    pos,        \* position of the for loop over words (write<u8>, transfer<u16>, write<u16>)
    bufcap,     \* write<u8>: bufcap
    result,     \* "none" while running, else "Ok" or the Error returned
    sent,       \* the values written to the data register during the call, in order
    rcvd,       \* the values read from the data register during the call, in order
    rxq,        \* loopback and fifo register interface: the elements delivered and not yet read
    txq,        \* fifo register interface: the elements written and not yet shifted out
    ovrflag,    \* fifo register interface: the overrun flag
    lastPoll,   \* the last status-register read of the call: [chk, res]
    sawFault,   \* the first fault a check_send/check_read/final status read saw in the call
    nblocks,    \* how many blocking send-ready waits the call has entered
    rdchk,      \* whether the call has invoked check_read
    trail,      \* what the calls before matter to the running one: see the call actions
    snap        \* the snapshot handed to the fault detector when it is exercised alone

vars == <<pc, op, hw, role, mode, pclk, speed, width, rcc, cr1, cr2, saved, pre,
          words, orig, read_pos, write_pos, pos, bufcap, result, sent, rcvd, rxq, txq, ovrflag,
          lastPoll, sawFault, nblocks, rdchk, trail, snap>>

ctorArgs == <<hw, role, mode, pclk, speed>>
\* What no operation of the handle changes.
fixed    == <<ctorArgs, snap>>
regs     == <<rcc, cr1, cr2>>
callVars == <<words, orig, read_pos, write_pos, pos, bufcap, result, sent, rcvd, rxq, txq, ovrflag,
              lastPoll, sawFault, nblocks, rdchk>>

-----------------------------------------------------------------------------
(* Bounds of the model. *)

\* Input clocks 1..MaxClk Hz are tried, next to the 48 MHz of the module example.
MaxClk == 400
\* Requested rates 0..MaxSpeed Hz are tried, next to the 1 MHz of the module example.
MaxSpeed == 3
\* Buffers of 0..MaxLen elements are transferred.
MaxLen == 2
\* Buffers of 0..MaxFifoLen elements are transferred against the FIFO hardware.
MaxFifoLen == 5

\* The clock and rate of the module documentation's example, in Hz.
ExamplePclk == 48 * 1000 * 1000
ExampleSpeed == 1 * 1000 * 1000

Polarities == {"IdleLow", "IdleHigh"}
Phases == {"CaptureOnFirstTransition", "CaptureOnSecondTransition"}
Modes == [polarity : Polarities, phase : Phases]
ExampleMode == [polarity |-> "IdleHigh", phase |-> "CaptureOnSecondTransition"]

\* Element values, for buffers and for what the bus delivers.
Data == {0, 1}
Buffers == UNION {[1..n -> Data] : n \in 0..MaxLen}

-----------------------------------------------------------------------------
(* Registers. *)

\* A control register after the reset pulse, and the value every field that a
\* write() closure does not name is written with.
Cr1Reset == [cpha |-> FALSE, cpol |-> FALSE, mstr |-> FALSE, br |-> 0, spe |-> FALSE,
             lsbfirst |-> FALSE, ssi |-> FALSE, ssm |-> FALSE, rxonly |-> FALSE,
             bidioe |-> FALSE, bidimode |-> FALSE]
Cr2Reset == [frxth |-> FALSE, ds |-> "eight_bit", ssoe |-> FALSE]

\* Every status-register snapshot.
StatusRegs == [ovr : BOOLEAN, modf : BOOLEAN, rxne : BOOLEAN, txe : BOOLEAN,
               bsy : BOOLEAN, ftlvl : 0..3]

Faults == {"Overrun", "ModeFault"}

-----------------------------------------------------------------------------
(* Clock divisor: the match of spi_init. *)

\* spi_init panics: u32 division by zero, or the unreachable!() arm of ratio 0.
br_panics(f_in, f_req) == f_req = 0 \/ f_in \div f_req = 0

br_offbyone(r) ==
    IF r <= 3 THEN 0
    ELSE IF r <= 6 THEN 1
    ELSE IF r <= 12 THEN 2
    ELSE IF r <= 24 THEN 3
    ELSE IF r <= 48 THEN 4
    ELSE IF r <= 96 THEN 5
    ELSE IF r <= 192 THEN 6
    ELSE 7

br_skewed(r) ==
    IF r <= 2 THEN 0
    ELSE IF r <= 5 THEN 1
    ELSE IF r <= 11 THEN 2
    ELSE IF r <= 23 THEN 3
    ELSE IF r <= 47 THEN 4
    ELSE IF r <= 95 THEN 6
    ELSE IF r <= 191 THEN 5
    ELSE 7

\* The arms for a ratio r >= 1.
br_arm(r) ==
    IF r <= 2 THEN 0
    ELSE IF r <= 5 THEN 1
    ELSE IF r <= 11 THEN 2
    ELSE IF r <= 23 THEN 3
    ELSE IF r <= 47 THEN 4
    ELSE IF r <= 95 THEN 5
    ELSE IF r <= 191 THEN 6
    ELSE 7

br_truncating(f_in, f_req) == br_arm((f_in + f_req - 1) \div f_req)

\* let br = match clocks.pclk().0 / speed.into().0 { ... }
br(f_in, f_req) == br_arm(f_in \div f_req)

-----------------------------------------------------------------------------
(* Register programming, as functions of the register value. *)

\* spi_init: cr1.write(...) for the controller role; fields it does not name are reset.
spi_init(m, b) ==
    [Cr1Reset EXCEPT !.cpha = (m.phase = "CaptureOnSecondTransition"),
                     !.cpol = (m.polarity = "IdleHigh"),
                     !.mstr = TRUE,
                     !.br = b,
                     !.lsbfirst = FALSE,
                     !.ssm = TRUE,
                     !.ssi = TRUE,
                     !.rxonly = FALSE,
                     !.bidimode = FALSE]

spi_init_slave_ssm(m) ==
    [Cr1Reset EXCEPT !.cpha = (m.phase = "CaptureOnSecondTransition"),
                     !.cpol = (m.polarity = "IdleHigh"),
                     !.mstr = FALSE,
                     !.lsbfirst = FALSE,
                     !.ssm = TRUE,
                     !.ssi = FALSE,
                     !.rxonly = FALSE,
                     !.bidimode = FALSE]

\* spi_init_slave: cr1.write(...) for the peripheral role.
spi_init_slave(m) ==
    [Cr1Reset EXCEPT !.cpha = (m.phase = "CaptureOnSecondTransition"),
                     !.cpol = (m.polarity = "IdleHigh"),
                     !.mstr = FALSE,
                     !.lsbfirst = FALSE,
                     !.ssm = FALSE,
                     !.ssi = FALSE,
                     !.rxonly = FALSE,
                     !.bidimode = FALSE]

\* enable: cr1.modify(spe set).
enable(c1) == [c1 EXCEPT !.spe = TRUE]

\* The first statement of spi_init and spi_init_slave: cr1.modify(spe clear).
disable(c1) == [c1 EXCEPT !.spe = FALSE]

\* into_8bit_width: cr2.write(frxth set, ds eight_bit, ssoe clear).
into_8bit_width == [Cr2Reset EXCEPT !.frxth = TRUE, !.ds = "eight_bit", !.ssoe = FALSE]

\* into_16bit_width: cr2.write(frxth set, ds sixteen_bit, ssoe clear).
into_16bit_width == [Cr2Reset EXCEPT !.frxth = TRUE, !.ds = "sixteen_bit", !.ssoe = FALSE]

\* The value of the one-bit receive threshold under which receive-not-empty fires once
\* per whole element of width w: into_8bit_width documents the set bit as the 8-bit
\* threshold, so the 16-bit threshold is the clear bit.
frxth_for(w) == (w = "EightBit")

\* set_send_only: cr1.modify(bidimode set, bidioe set).
set_send_only(c1) == [c1 EXCEPT !.bidimode = TRUE, !.bidioe = TRUE]

set_bidi_half(c1) == [c1 EXCEPT !.bidimode = FALSE]

\* set_bidi: cr1.modify(bidimode clear, bidioe clear).
set_bidi(c1) == [c1 EXCEPT !.bidimode = FALSE, !.bidioe = FALSE]

-----------------------------------------------------------------------------
(* The state every call starts from: the locals and the per-call records. *)

NoPoll == [chk |-> "none", res |-> "none"]

\* A call starts on buffer buf, having entered nb blocking send-ready waits.
StartCall(buf, nb) ==
    /\ words' = buf
    /\ orig' = buf
    /\ read_pos' = 0
    /\ write_pos' = 0
    /\ pos' = 0
    /\ bufcap' = 0
    /\ result' = "none"
    /\ sent' = <<>>
    /\ rcvd' = <<>>
    /\ rxq' = <<>>
    /\ txq' = IF hw = "txfifo" THEN txq ELSE <<>>
    /\ ovrflag' = FALSE
    /\ lastPoll' = NoPoll
    /\ sawFault' = "none"
    /\ nblocks' = nb
    /\ rdchk' = FALSE

\* The status register out of reset: only transmit-empty is set.
SrReset == [ovr |-> FALSE, modf |-> FALSE, rxne |-> FALSE, txe |-> TRUE,
            bsy |-> FALSE, ftlvl |-> 0]

NoCall ==
    /\ trail = "none"
    /\ words = <<>>
    /\ orig = <<>>
    /\ read_pos = 0
    /\ write_pos = 0
    /\ pos = 0
    /\ bufcap = 0
    /\ result = "none"
    /\ sent = <<>>
    /\ rcvd = <<>>
    /\ rxq = <<>>
    /\ txq = <<>>
    /\ ovrflag = FALSE
    /\ lastPoll = NoPoll
    /\ sawFault = "none"
    /\ nblocks = 0
    /\ rdchk = FALSE

-----------------------------------------------------------------------------
(* The constructors spi1 and spi1_slave, one register access at a time. *)

\* rcc.regs.apbenr.modify(spiXen set)
CtorClockEnable ==
    /\ pc = "new"
    /\ rcc' = [rcc EXCEPT !.en = TRUE]
    /\ pc' = "ctor_rst_set"
    /\ op' = IF role = "controller" THEN "spi1" ELSE "spi1_slave"
    /\ trail' = "none"
    /\ UNCHANGED <<fixed, width, cr1, cr2, saved, pre, callVars>>

\* rcc.regs.apbrstr.modify(spiXrst set): the unit's registers take their reset values.
CtorResetSet ==
    /\ pc = "ctor_rst_set"
    /\ rcc' = [rcc EXCEPT !.rst = TRUE]
    /\ cr1' = Cr1Reset
    /\ cr2' = Cr2Reset
    /\ pc' = "ctor_rst_clear"
    /\ UNCHANGED <<op, trail, fixed, width, saved, pre, callVars>>

\* rcc.regs.apbrstr.modify(spiXrst clear)
CtorResetClear ==
    /\ pc = "ctor_rst_clear"
    /\ rcc' = [rcc EXCEPT !.rst = FALSE]
    /\ pc' = "ctor_disable"
    /\ UNCHANGED <<op, trail, fixed, width, cr1, cr2, saved, pre, callVars>>

\* spi_init / spi_init_slave: cr1.modify(spe clear)
CtorDisable ==
    /\ pc = "ctor_disable"
    /\ cr1' = disable(cr1)
    /\ pc' = "ctor_init"
    /\ UNCHANGED <<op, trail, fixed, width, rcc, cr2, saved, pre, callVars>>

\* spi_init: the divisor match and cr1.write; spi_init_slave: cr1.write.
CtorInit ==
    /\ pc = "ctor_init"
    /\ IF role = "controller"
         THEN IF br_panics(pclk, speed)
                THEN pc' = "panic" /\ cr1' = cr1
                ELSE pc' = "ctor_width" /\ cr1' = spi_init(mode, br(pclk, speed))
         ELSE pc' = "ctor_width" /\ cr1' = spi_init_slave(mode)
    /\ UNCHANGED <<op, trail, fixed, width, rcc, cr2, saved, pre, callVars>>

\* .into_8bit_width()
CtorWidth ==
    /\ pc = "ctor_width"
    /\ cr2' = into_8bit_width
    /\ width' = "EightBit"
    /\ pc' = "ctor_enable"
    /\ UNCHANGED <<op, trail, fixed, rcc, cr1, saved, pre, callVars>>

\* .enable()
CtorEnable ==
    /\ pc = "ctor_enable"
    /\ cr1' = enable(cr1)
    /\ pc' = "idle"
    /\ UNCHANGED <<op, trail, fixed, width, rcc, cr2, saved, pre, callVars>>

\* A register interface as the constructor may find it: fresh from power-on, or left
\* programmed by a handle that was released.
DirtyCr1 == [Cr1Reset EXCEPT !.spe = TRUE, !.bidimode = TRUE, !.bidioe = TRUE, !.br = 7]
DirtyCr2 == [Cr2Reset EXCEPT !.ds = "sixteen_bit", !.ssoe = TRUE]

\* The (pclk, speed) arguments tried: the peripheral constructor takes no rate.
CtorClocks(r) ==
    IF r = "controller"
      THEN ((1..MaxClk) \cup {ExamplePclk}) \X ((0..MaxSpeed) \cup {ExampleSpeed})
      ELSE {<<ExamplePclk, 0>>}

InitCtor ==
    /\ pc = "new"
    /\ op = "none"
    /\ hw = "free"
    /\ role \in {"controller", "peripheral"}
    /\ mode \in Modes
    /\ \E c \in CtorClocks(role) : pclk = c[1] /\ speed = c[2]
    /\ width = "EightBit"
    /\ rcc = [en |-> FALSE, rst |-> FALSE]
    /\ \E c \in {<<Cr1Reset, Cr2Reset>>, <<DirtyCr1, DirtyCr2>>} : cr1 = c[1] /\ cr2 = c[2]
    /\ saved = <<>>
    /\ pre = <<>>
    /\ NoCall
    /\ snap = SrReset

NextCtor ==
    \/ CtorClockEnable
    \/ CtorResetSet
    \/ CtorResetClear
    \/ CtorDisable
    \/ CtorInit
    \/ CtorWidth
    \/ CtorEnable

\* The construction of a handle, for every clock, rate, mode and role.
SpecCtor == InitCtor /\ [][NextCtor]_vars

-----------------------------------------------------------------------------
(* The fault detector and the send-capacity estimate. *)

check_read_blind(sr) ==
    IF sr.rxne THEN "Ok" ELSE "WouldBlock"

check_read_modf_first(sr) ==
    IF sr.modf THEN "ModeFault"
    ELSE IF sr.ovr THEN "Overrun"
    ELSE IF sr.rxne THEN "Ok"
    ELSE "WouldBlock"

\* check_read: Ok(()) is "Ok", nb::Error::WouldBlock is "WouldBlock", Other(e) is e.
check_read(sr) ==
    IF sr.ovr THEN "Overrun"
    ELSE IF sr.modf THEN "ModeFault"
    ELSE IF sr.rxne THEN "Ok"
    ELSE "WouldBlock"

check_send_blind(sr) ==
    IF sr.txe /\ ~sr.bsy THEN "Ok" ELSE "WouldBlock"

check_send(sr) ==
    IF sr.ovr THEN "Overrun"
    ELSE IF sr.modf THEN "ModeFault"
    ELSE IF sr.txe /\ ~sr.bsy THEN "Ok"
    ELSE "WouldBlock"

send_buffer_size_generous(sr) ==
    CASE sr.ftlvl = 0 -> 4
      [] sr.ftlvl = 1 -> 3
      [] sr.ftlvl = 2 -> 3
      [] OTHER -> 0

send_buffer_size(sr) ==
    CASE sr.ftlvl = 0 -> 4
      [] sr.ftlvl = 1 -> 3
      [] sr.ftlvl = 2 -> 2
      [] OTHER -> 0

\* What the final status read of transfer<u8> and the ghost record see of a snapshot.
observed(sr) ==
    IF sr.ovr THEN "Overrun" ELSE IF sr.modf THEN "ModeFault" ELSE "Ok"

-----------------------------------------------------------------------------
(* The register interface behind the handle. *)

\* The level field of a transmit FIFO holding n elements: FIFO empty, 1/4 full,
\* 1/2 full, full.
TxLevel(n) == IF n = 0 THEN 0 ELSE IF n <= 1 THEN 1 ELSE IF n <= 2 THEN 2 ELSE 3

\* The values a read of the status register may return now.
\*   free:     any snapshot, at every read;
\*   stall:    no fault bit, and receive-not-empty clear once transfer<u8> has sent
\*             every element;
\*   loopback: no fault bit, transmit side always ready, receive-not-empty set while
\*             an element sent is still unread;
\*   calm:     no fault bit, any snapshot otherwise;
\*   fifo:     overrun as the receive FIFO raised it, transmit-empty and not busy
\*             exactly while no element written is still to be shifted out,
\*             receive-not-empty exactly while the receive FIFO holds an element;
\*   txfifo:   no fault bit, nothing received, the transmit FIFO level as TxLevel
\*             quantizes it, transmit-empty and busy any value.
SrReads ==
    CASE hw = "free" -> StatusRegs
      [] hw = "stall" ->
            {sr \in StatusRegs : /\ ~sr.ovr
                                 /\ ~sr.modf
                                 /\ (write_pos = Len(words) => ~sr.rxne)}
      [] hw = "loopback" ->
            {sr \in StatusRegs : /\ ~sr.ovr
                                 /\ ~sr.modf
                                 /\ sr.txe
                                 /\ ~sr.bsy
                                 /\ sr.ftlvl = 0
                                 /\ (rxq # <<>> => sr.rxne)}
      [] hw = "calm" ->
            {sr \in StatusRegs : ~sr.ovr /\ ~sr.modf}
      [] hw = "fifo" ->
            {[ovr |-> ovrflag, modf |-> FALSE, rxne |-> (rxq # <<>>), txe |-> (txq = <<>>),
              bsy |-> (txq # <<>>), ftlvl |-> IF Len(txq) < 3 THEN Len(txq) ELSE 3]}
      [] hw = "txfifo" ->
            {sr \in StatusRegs : /\ ~sr.ovr
                                 /\ ~sr.modf
                                 /\ ~sr.rxne
                                 /\ sr.ftlvl = TxLevel(Len(txq))}

\* The values a read of the data register may return now.
DrReads ==
    IF hw \in {"loopback", "fifo"} /\ rxq # <<>> THEN {Head(rxq)} ELSE Data

\* The receive queue after the data register is written with v, and after it is read.
DrWritten(v) == IF hw = "loopback" THEN Append(rxq, v) ELSE rxq
DrRead == IF hw \in {"loopback", "fifo"} /\ rxq # <<>> THEN Tail(rxq) ELSE rxq

\* The transmit queue after the data register is written with v.
TxWritten(v) == IF hw \in {"fifo", "txfifo"} THEN Append(txq, v) ELSE txq

\* What a poll adds to the record of the first fault seen.
Saw(res) == IF sawFault = "none" /\ res \in Faults THEN res ELSE sawFault

-----------------------------------------------------------------------------
(* Transfer<u8>::transfer *)

send_slot_stale(rp, wp) == rp

\* self.send_u8(words[write_pos]): the slot sent (0-based).
send_slot(rp, wp) == wp

store_slot_ahead(rp, wp) == wp - 1

\* words[read_pos] = self.read_u8(): the slot stored (0-based).
store_slot(rp, wp) == rp

\* transfer(words): set_bidi, read_pos = 0, write_pos = 0.
Transfer8Call ==
    /\ pc = "idle"
    /\ width = "EightBit"
    /\ \E buf \in Buffers : StartCall(buf, 0)
    /\ cr1' = set_bidi(cr1)
    /\ op' = "transfer8"
    /\ trail' = IF trail = "write" THEN "write,transfer" ELSE "none"
    /\ pc' = "t8_outer"
    /\ pre' = <<>>
    /\ UNCHANGED <<fixed, width, rcc, cr2, saved>>

T8Outer_inclusive ==
    /\ pc = "t8_outer"
    /\ pc' = IF read_pos <= Len(words) THEN "t8_fill" ELSE "t8_drain"
    /\ UNCHANGED <<op, trail, fixed, width, regs, saved, pre, callVars>>

\* while read_pos < words.len()
T8Outer ==
    /\ pc = "t8_outer"
    /\ pc' = IF read_pos < Len(words) THEN "t8_fill" ELSE "t8_drain"
    /\ UNCHANGED <<op, trail, fixed, width, regs, saved, pre, callVars>>

\* while write_pos < words.len() && self.check_send().is_ok() { send_u8; write_pos += 1 }
T8Fill ==
    /\ pc = "t8_fill"
    /\ IF write_pos < Len(words)
         THEN \E sr \in SrReads :
                LET res == check_send(sr)
                    v == words[send_slot(read_pos, write_pos) + 1]
                IN
                /\ lastPoll' = [chk |-> "send", res |-> res]
                /\ sawFault' = Saw(observed(sr))
                /\ IF res = "Ok"
                     THEN /\ sent' = Append(sent, v)
                          /\ rxq' = DrWritten(v)
                          /\ txq' = TxWritten(v)
                          /\ ovrflag' = ovrflag
                          /\ write_pos' = write_pos + 1
                          /\ pc' = pc
                     ELSE /\ pc' = "t8_read"
                          /\ UNCHANGED <<sent, rxq, txq, ovrflag, write_pos>>
         ELSE /\ pc' = "t8_read"
              /\ UNCHANGED <<lastPoll, sawFault, sent, rxq, txq, ovrflag, write_pos>>
    /\ UNCHANGED <<op, trail, fixed, width, regs, saved, pre, words, orig, read_pos, pos,
                   bufcap, result, rcvd, nblocks, rdchk>>

T8Read_unguarded ==
    /\ pc = "t8_read"
    /\ \E sr \in SrReads :
         LET res == check_read(sr) IN
         /\ lastPoll' = [chk |-> "read", res |-> res]
         /\ sawFault' = Saw(observed(sr))
         /\ rdchk' = TRUE
         /\ IF res = "Ok" /\ read_pos < Len(words)
              THEN \E v \in DrReads :
                     /\ words' = [words EXCEPT ![store_slot(read_pos, write_pos) + 1] = v]
                     /\ rcvd' = Append(rcvd, v)
                     /\ rxq' = DrRead
                     /\ txq' = txq
                     /\ ovrflag' = ovrflag
                     /\ read_pos' = read_pos + 1
                     /\ pc' = pc
              ELSE /\ pc' = "t8_outer"
                   /\ UNCHANGED <<words, rcvd, rxq, txq, ovrflag, read_pos>>
    /\ UNCHANGED <<op, trail, fixed, width, regs, saved, pre, orig, write_pos, pos, bufcap,
                   result, sent, nblocks>>

\* while self.check_read().is_ok() && read_pos < write_pos { words[read_pos] = read_u8; read_pos += 1 }
T8Read ==
    /\ pc = "t8_read"
    /\ \E sr \in SrReads :
         LET res == check_read(sr) IN
         /\ lastPoll' = [chk |-> "read", res |-> res]
         /\ sawFault' = Saw(observed(sr))
         /\ rdchk' = TRUE
         /\ IF res = "Ok" /\ read_pos < write_pos
              THEN \E v \in DrReads :
                     /\ words' = [words EXCEPT ![store_slot(read_pos, write_pos) + 1] = v]
                     /\ rcvd' = Append(rcvd, v)
                     /\ rxq' = DrRead
                     /\ txq' = txq
                     /\ ovrflag' = ovrflag
                     /\ read_pos' = read_pos + 1
                     /\ pc' = pc
              ELSE /\ pc' = "t8_outer"
                   /\ UNCHANGED <<words, rcvd, rxq, txq, ovrflag, read_pos>>
    /\ UNCHANGED <<op, trail, fixed, width, regs, saved, pre, orig, write_pos, pos, bufcap,
                   result, sent, nblocks>>

\* The drain loop: while read_pos < words.len() { if check_read ok { read } else { return IncompleteTransfer } }
T8Drain ==
    /\ pc = "t8_drain"
    /\ IF read_pos < Len(words)
         THEN \E sr \in SrReads :
                LET res == check_read(sr) IN
                /\ lastPoll' = [chk |-> "read", res |-> res]
                /\ sawFault' = Saw(observed(sr))
                /\ rdchk' = TRUE
                /\ IF res = "Ok"
                     THEN \E v \in DrReads :
                            /\ words' = [words EXCEPT ![read_pos + 1] = v]
                            /\ rcvd' = Append(rcvd, v)
                            /\ rxq' = DrRead
                            /\ txq' = txq
                            /\ ovrflag' = ovrflag
                            /\ read_pos' = read_pos + 1
                            /\ pc' = pc
                            /\ result' = result
                     ELSE /\ result' = "IncompleteTransfer"
                          /\ pc' = "idle"
                          /\ UNCHANGED <<words, rcvd, rxq, txq, ovrflag, read_pos>>
         ELSE /\ pc' = "t8_final"
              /\ UNCHANGED <<lastPoll, sawFault, rdchk, words, rcvd, rxq, txq, ovrflag, read_pos, result>>
    /\ UNCHANGED <<op, trail, fixed, width, regs, saved, pre, orig, write_pos, pos, bufcap,
                   sent, nblocks>>

\* if self.spi.sr.read().ovr().bit_is_set() { Err(Overrun) } else { Ok(words) }
T8Final ==
    /\ pc = "t8_final"
    /\ \E sr \in SrReads :
         /\ lastPoll' = [chk |-> "final", res |-> observed(sr)]
         /\ sawFault' = Saw(observed(sr))
         /\ result' = IF sr.ovr THEN "Overrun" ELSE "Ok"
    /\ pc' = "idle"
    /\ UNCHANGED <<op, trail, fixed, width, regs, saved, pre, words, orig, read_pos, write_pos,
                   pos, bufcap, sent, rcvd, rxq, txq, ovrflag, nblocks, rdchk>>

-----------------------------------------------------------------------------
(* Write<u8>::write *)

\* write(words): bufcap = 0, set_send_only, and the first nb::block!(check_send) entered.
Write8Call ==
    /\ pc = "idle"
    /\ width = "EightBit"
    /\ \E buf \in Buffers : StartCall(buf, 1)
    /\ cr1' = set_send_only(cr1)
    /\ op' = "write8"
    /\ trail' = "write"
    /\ pc' = "w8_init"
    /\ pre' = <<>>
    /\ UNCHANGED <<fixed, width, rcc, cr2, saved>>

\* nb::block!(self.check_send())?
W8Init ==
    /\ pc = "w8_init"
    /\ \E sr \in SrReads :
         LET res == check_send(sr) IN
         /\ lastPoll' = [chk |-> "send", res |-> res]
         /\ sawFault' = Saw(observed(sr))
         /\ CASE res = "WouldBlock" -> result' = result /\ pc' = pc
              [] res \in Faults -> result' = res /\ pc' = "idle"
              [] OTHER -> result' = result /\ pc' = "w8_loop"
    /\ UNCHANGED <<op, trail, fixed, width, regs, saved, pre, words, orig, read_pos, write_pos,
                   pos, bufcap, sent, rcvd, rxq, txq, ovrflag, nblocks, rdchk>>

W8Loop_nofinal ==
    /\ pc = "w8_loop"
    /\ IF pos < Len(words)
         THEN IF bufcap = 0
                THEN /\ \E sr \in SrReads :
                          /\ bufcap' = send_buffer_size(sr)
                          /\ lastPoll' = [chk |-> "level", res |-> "none"]
                     /\ UNCHANGED <<pc, sent, rxq, txq, ovrflag, pos, nblocks, result>>
                ELSE /\ sent' = Append(sent, words[pos + 1])
                     /\ rxq' = DrWritten(words[pos + 1])
                     /\ txq' = TxWritten(words[pos + 1])
                     /\ ovrflag' = ovrflag
                     /\ bufcap' = bufcap - 1
                     /\ pos' = pos + 1
                     /\ UNCHANGED <<pc, lastPoll, nblocks, result>>
         ELSE /\ pc' = "idle"
              /\ result' = "Ok"
              /\ UNCHANGED <<lastPoll, sent, rxq, txq, ovrflag, pos, bufcap, nblocks>>
    /\ UNCHANGED <<op, trail, fixed, width, regs, saved, pre, words, orig, read_pos, write_pos,
                   rcvd, sawFault, rdchk>>

\* for word in words { while bufcap == 0 { bufcap = send_buffer_size() }; send_u8; bufcap -= 1 }
\* and, past the last word, the final nb::block!(check_send) entered.
W8Loop ==
    /\ pc = "w8_loop"
    /\ IF pos < Len(words)
         THEN IF bufcap = 0
                THEN /\ \E sr \in SrReads :
                          /\ bufcap' = send_buffer_size(sr)
                          /\ lastPoll' = [chk |-> "level", res |-> "none"]
                     /\ UNCHANGED <<pc, sent, rxq, txq, ovrflag, pos, nblocks, result>>
                ELSE /\ sent' = Append(sent, words[pos + 1])
                     /\ rxq' = DrWritten(words[pos + 1])
                     /\ txq' = TxWritten(words[pos + 1])
                     /\ ovrflag' = ovrflag
                     /\ bufcap' = bufcap - 1
                     /\ pos' = pos + 1
                     /\ UNCHANGED <<pc, lastPoll, nblocks, result>>
         ELSE /\ pc' = "w8_final"
              /\ nblocks' = nblocks + 1
              /\ UNCHANGED <<lastPoll, sent, rxq, txq, ovrflag, pos, bufcap, result>>
    /\ UNCHANGED <<op, trail, fixed, width, regs, saved, pre, words, orig, read_pos, write_pos,
                   rcvd, sawFault, rdchk>>

\* nb::block!(self.check_send()).ok(); Ok(())
W8Final ==
    /\ pc = "w8_final"
    /\ \E sr \in SrReads :
         LET res == check_send(sr) IN
         /\ lastPoll' = [chk |-> "send", res |-> res]
         /\ sawFault' = Saw(observed(sr))
         /\ IF res = "WouldBlock"
              THEN result' = result /\ pc' = pc
              ELSE result' = "Ok" /\ pc' = "idle"
    /\ UNCHANGED <<op, trail, fixed, width, regs, saved, pre, words, orig, read_pos, write_pos,
                   pos, bufcap, sent, rcvd, rxq, txq, ovrflag, nblocks, rdchk>>

-----------------------------------------------------------------------------
(* Transfer<u16>::transfer *)

\* transfer(words): set_bidi.
Transfer16Call ==
    /\ pc = "idle"
    /\ width = "SixteenBit"
    /\ \E buf \in Buffers : StartCall(buf, 0)
    /\ cr1' = set_bidi(cr1)
    /\ op' = "transfer16"
    /\ trail' = IF trail = "write" THEN "write,transfer" ELSE "none"
    /\ pc' = "t16_loop"
    /\ pre' = <<>>
    /\ UNCHANGED <<fixed, width, rcc, cr2, saved>>

\* for word in words.iter_mut(): the next element, or Ok(words) past the last.
T16Loop ==
    /\ pc = "t16_loop"
    /\ IF pos < Len(words)
         THEN pc' = "t16_send" /\ nblocks' = nblocks + 1 /\ result' = result
         ELSE pc' = "idle" /\ nblocks' = nblocks /\ result' = "Ok"
    /\ UNCHANGED <<op, trail, fixed, width, regs, saved, pre, words, orig, read_pos, write_pos,
                   pos, bufcap, sent, rcvd, rxq, txq, ovrflag, lastPoll, sawFault, rdchk>>

\* nb::block!(self.check_send())?; self.send_u16(*word)
T16Send ==
    /\ pc = "t16_send"
    /\ \E sr \in SrReads :
         LET res == check_send(sr) IN
         /\ lastPoll' = [chk |-> "send", res |-> res]
         /\ sawFault' = Saw(observed(sr))
         /\ CASE res = "WouldBlock" ->
                   /\ pc' = pc
                   /\ UNCHANGED <<result, sent, rxq, txq, ovrflag>>
              [] res \in Faults ->
                   /\ pc' = "idle"
                   /\ result' = res
                   /\ UNCHANGED <<sent, rxq, txq, ovrflag>>
              [] OTHER ->
                   /\ pc' = "t16_recv"
                   /\ sent' = Append(sent, words[pos + 1])
                   /\ rxq' = DrWritten(words[pos + 1])
                   /\ txq' = TxWritten(words[pos + 1])
                   /\ ovrflag' = ovrflag
                   /\ result' = result
    /\ UNCHANGED <<op, trail, fixed, width, regs, saved, pre, words, orig, read_pos, write_pos,
                   pos, bufcap, rcvd, nblocks, rdchk>>

\* nb::block!(self.check_read())?; *word = self.read_u16()
T16Recv ==
    /\ pc = "t16_recv"
    /\ \E sr \in SrReads :
         LET res == check_read(sr) IN
         /\ lastPoll' = [chk |-> "read", res |-> res]
         /\ sawFault' = Saw(observed(sr))
         /\ rdchk' = TRUE
         /\ CASE res = "WouldBlock" ->
                   /\ pc' = pc
                   /\ UNCHANGED <<result, words, rcvd, rxq, txq, ovrflag, pos>>
              [] res \in Faults ->
                   /\ pc' = "idle"
                   /\ result' = res
                   /\ UNCHANGED <<words, rcvd, rxq, txq, ovrflag, pos>>
              [] OTHER ->
                   \E v \in DrReads :
                     /\ pc' = "t16_loop"
                     /\ words' = [words EXCEPT ![pos + 1] = v]
                     /\ rcvd' = Append(rcvd, v)
                     /\ rxq' = DrRead
                     /\ txq' = txq
                     /\ ovrflag' = ovrflag
                     /\ pos' = pos + 1
                     /\ result' = result
    /\ UNCHANGED <<op, trail, fixed, width, regs, saved, pre, orig, read_pos, write_pos,
                   bufcap, sent, nblocks>>

-----------------------------------------------------------------------------
(* Write<u16>::write *)

\* write(words): set_send_only.
Write16Call ==
    /\ pc = "idle"
    /\ width = "SixteenBit"
    /\ \E buf \in Buffers : StartCall(buf, 0)
    /\ cr1' = set_send_only(cr1)
    /\ op' = "write16"
    /\ trail' = "write"
    /\ pc' = "w16_loop"
    /\ pre' = <<>>
    /\ UNCHANGED <<fixed, width, rcc, cr2, saved>>

\* for word in words: the next element's nb::block!(check_send) entered, or the final one.
W16Loop ==
    /\ pc = "w16_loop"
    /\ pc' = IF pos < Len(words) THEN "w16_send" ELSE "w16_final"
    /\ nblocks' = nblocks + 1
    /\ UNCHANGED <<op, trail, fixed, width, regs, saved, pre, words, orig, read_pos, write_pos,
                   pos, bufcap, result, sent, rcvd, rxq, txq, ovrflag, lastPoll, sawFault, rdchk>>

\* nb::block!(self.check_send())?; self.send_u16(*word)
W16Send ==
    /\ pc = "w16_send"
    /\ \E sr \in SrReads :
         LET res == check_send(sr) IN
         /\ lastPoll' = [chk |-> "send", res |-> res]
         /\ sawFault' = Saw(observed(sr))
         /\ CASE res = "WouldBlock" ->
                   /\ pc' = pc
                   /\ UNCHANGED <<result, sent, rxq, txq, ovrflag, pos>>
              [] res \in Faults ->
                   /\ pc' = "idle"
                   /\ result' = res
                   /\ UNCHANGED <<sent, rxq, txq, ovrflag, pos>>
              [] OTHER ->
                   /\ pc' = "w16_loop"
                   /\ sent' = Append(sent, words[pos + 1])
                   /\ rxq' = DrWritten(words[pos + 1])
                   /\ txq' = TxWritten(words[pos + 1])
                   /\ ovrflag' = ovrflag
                   /\ pos' = pos + 1
                   /\ result' = result
    /\ UNCHANGED <<op, trail, fixed, width, regs, saved, pre, words, orig, read_pos, write_pos,
                   bufcap, rcvd, nblocks, rdchk>>

\* nb::block!(self.check_send()).ok(); Ok(())
W16Final ==
    /\ pc = "w16_final"
    /\ \E sr \in SrReads :
         LET res == check_send(sr) IN
         /\ lastPoll' = [chk |-> "send", res |-> res]
         /\ sawFault' = Saw(observed(sr))
         /\ IF res = "WouldBlock"
              THEN result' = result /\ pc' = pc
              ELSE result' = "Ok" /\ pc' = "idle"
    /\ UNCHANGED <<op, trail, fixed, width, regs, saved, pre, words, orig, read_pos, write_pos,
                   pos, bufcap, sent, rcvd, rxq, txq, ovrflag, nblocks, rdchk>>

-----------------------------------------------------------------------------
(* enable, the width conversions and reset, on a constructed handle. *)

\* enable(self)
Enable ==
    /\ pc = "idle"
    /\ StartCall(<<>>, 0)
    /\ cr1' = enable(cr1)
    /\ op' = "enable"
    /\ trail' = "none"
    /\ pre' = <<>>
    /\ UNCHANGED <<pc, fixed, width, rcc, cr2, saved>>

\* into_8bit_width(self)
Into8BitWidth ==
    /\ pc = "idle"
    /\ StartCall(<<>>, 0)
    /\ cr2' = into_8bit_width
    /\ width' = "EightBit"
    /\ op' = "into_8bit_width"
    /\ trail' = IF trail = "8,16" THEN "8,16,8" ELSE "8"
    /\ pre' = <<>>
    /\ UNCHANGED <<pc, fixed, rcc, cr1, saved>>

Into16BitWidth_disabling ==
    /\ pc = "idle"
    /\ StartCall(<<>>, 0)
    /\ cr1' = disable(cr1)
    /\ cr2' = into_16bit_width
    /\ width' = "SixteenBit"
    /\ op' = "into_16bit_width"
    /\ trail' = IF trail \in {"8", "8,16,8"} THEN "8,16" ELSE "none"
    /\ pre' = <<>>
    /\ UNCHANGED <<pc, fixed, rcc, saved>>

\* into_16bit_width(self)
Into16BitWidth ==
    /\ pc = "idle"
    /\ StartCall(<<>>, 0)
    /\ cr2' = into_16bit_width
    /\ width' = "SixteenBit"
    /\ op' = "into_16bit_width"
    /\ trail' = IF trail \in {"8", "8,16,8"} THEN "8,16" ELSE "none"
    /\ pre' = <<>>
    /\ UNCHANGED <<pc, fixed, rcc, cr1, saved>>

\* reset(&mut self, rcc) is called: defined on the EightBit handle only.
ResetCall ==
    /\ pc = "idle"
    /\ width = "EightBit"
    /\ StartCall(<<>>, 0)
    /\ pre' = <<cr1, cr2>>
    /\ op' = "reset"
    /\ trail' = "none"
    /\ pc' = "rst_read"
    /\ UNCHANGED <<fixed, width, regs, saved>>

\* let cr1 = self.spi.cr1.read(); let cr2 = self.spi.cr2.read();
ResetRead ==
    /\ pc = "rst_read"
    /\ saved' = <<cr1, cr2>>
    /\ pc' = "rst_set"
    /\ UNCHANGED <<op, trail, fixed, width, regs, pre, callVars>>

\* rcc.regs.apbrstr.modify(spiXrst set): the unit's registers take their reset values.
ResetSet ==
    /\ pc = "rst_set"
    /\ rcc' = [rcc EXCEPT !.rst = TRUE]
    /\ cr1' = Cr1Reset
    /\ cr2' = Cr2Reset
    /\ pc' = "rst_clear"
    /\ UNCHANGED <<op, trail, fixed, width, saved, pre, callVars>>

\* rcc.regs.apbrstr.modify(spiXrst clear)
ResetClear ==
    /\ pc = "rst_clear"
    /\ rcc' = [rcc EXCEPT !.rst = FALSE]
    /\ pc' = "rst_cr2"
    /\ UNCHANGED <<op, trail, fixed, width, cr1, cr2, saved, pre, callVars>>

ResetWriteCr2_skipped ==
    /\ pc = "rst_cr2"
    /\ pc' = "rst_cr1"
    /\ UNCHANGED <<op, trail, fixed, width, regs, saved, pre, callVars>>

\* self.spi.cr2.write(|w| w.bits(cr2.bits()))
ResetWriteCr2 ==
    /\ pc = "rst_cr2"
    /\ cr2' = saved[2]
    /\ pc' = "rst_cr1"
    /\ UNCHANGED <<op, trail, fixed, width, rcc, cr1, saved, pre, callVars>>

ResetWriteCr1_disabled ==
    /\ pc = "rst_cr1"
    /\ cr1' = disable(saved[1])
    /\ saved' = <<>>
    /\ pc' = "idle"
    /\ UNCHANGED <<op, trail, fixed, width, rcc, cr2, pre, callVars>>

\* self.spi.cr1.write(|w| w.bits(cr1.bits())), and reset returns.
ResetWriteCr1 ==
    /\ pc = "rst_cr1"
    /\ cr1' = saved[1]
    /\ saved' = <<>>
    /\ pc' = "idle"
    /\ UNCHANGED <<op, trail, fixed, width, rcc, cr2, pre, callVars>>

-----------------------------------------------------------------------------
(* The handle after construction, and its life. *)

\* The clocks the handles of Spec, SpecStall and SpecLoop were constructed with.
HandleClocks(r) ==
    IF r = "controller" THEN {<<ExamplePclk, ExampleSpeed>>, <<8, 1>>}
                        ELSE {<<ExamplePclk, 0>>}

\* The state spi1 / spi1_slave return the handle in, on register interface h.
Built(h) ==
    /\ pc = "idle"
    /\ hw = h
    /\ role \in {"controller", "peripheral"}
    /\ op = IF role = "controller" THEN "spi1" ELSE "spi1_slave"
    /\ mode \in Modes
    /\ \E c \in HandleClocks(role) : pclk = c[1] /\ speed = c[2]
    /\ width = "EightBit"
    /\ rcc = [en |-> TRUE, rst |-> FALSE]
    /\ cr1 = enable(IF role = "controller" THEN spi_init(mode, br(pclk, speed))
                                           ELSE spi_init_slave(mode))
    /\ cr2 = into_8bit_width
    /\ saved = <<>>
    /\ pre = <<>>
    /\ NoCall

\* The handle as the constructors return it, the lone fault-detector polls not in use.
Constructed(h) == Built(h) /\ snap = SrReset

Init == Constructed("free")

Next ==
    \/ Transfer8Call
    \/ T8Outer
    \/ T8Fill
    \/ T8Read
    \/ T8Drain
    \/ T8Final
    \/ Write8Call
    \/ W8Init
    \/ W8Loop
    \/ W8Final
    \/ Transfer16Call
    \/ T16Loop
    \/ T16Send
    \/ T16Recv
    \/ Write16Call
    \/ W16Loop
    \/ W16Send
    \/ W16Final
    \/ Enable
    \/ Into8BitWidth
    \/ Into16BitWidth
    \/ ResetCall
    \/ ResetRead
    \/ ResetSet
    \/ ResetClear
    \/ ResetWriteCr2
    \/ ResetWriteCr1

\* A constructed handle used for any sequence of calls, every status-register read
\* returning any snapshot.
Spec == Init /\ [][Next]_vars

\* A handle whose receive side stalls once transfer<u8> has sent every element, with
\* no fault bit ever set; the driver always takes its next step.
InitStall == Constructed("stall")

NextStall ==
    \/ Transfer8Call
    \/ T8Outer
    \/ T8Fill
    \/ T8Read
    \/ T8Drain
    \/ T8Final

SpecStall == InitStall /\ [][NextStall]_vars /\ WF_vars(NextStall)

\* A handle wired back to itself with no delay: full-duplex transfers of both widths.
InitLoop == Constructed("loopback")

NextLoop ==
    \/ Transfer8Call
    \/ T8Outer
    \/ T8Fill
    \/ T8Read
    \/ T8Drain
    \/ T8Final
    \/ Into16BitWidth
    \/ Into8BitWidth
    \/ Transfer16Call
    \/ T16Loop
    \/ T16Send
    \/ T16Recv

SpecLoop == InitLoop /\ [][NextLoop]_vars

-----------------------------------------------------------------------------
(* transfer<u8> against a unit with a receive FIFO, the unit a process of its own. *)

\* Elements the receive FIFO holds: the four bytes the FIFO levels count.
RxDepth == 4

FifoBuffers == UNION {[1..n -> Data] : n \in 0..MaxFifoLen}

\* transfer(words), on buffers long enough to fill the FIFO.
Transfer8CallFifo ==
    /\ pc = "idle"
    /\ width = "EightBit"
    /\ \E buf \in FifoBuffers : StartCall(buf, 0)
    /\ cr1' = set_bidi(cr1)
    /\ op' = "transfer8"
    /\ trail' = IF trail = "write" THEN "write,transfer" ELSE "none"
    /\ pc' = "t8_outer"
    /\ pre' = <<>>
    /\ UNCHANGED <<fixed, width, rcc, cr2, saved>>

\* The shift of the oldest element written completes: it leaves the transmit side and
\* the element the bus delivered enters the receive FIFO, or raises overrun and is
\* lost if the FIFO is full.
HwShift ==
    /\ hw = "fifo"
    /\ txq # <<>>
    /\ txq' = Tail(txq)
    /\ IF Len(rxq) < RxDepth
         THEN (\E v \in Data : rxq' = Append(rxq, v)) /\ ovrflag' = ovrflag
         ELSE rxq' = rxq /\ ovrflag' = TRUE
    /\ UNCHANGED <<pc, op, trail, fixed, width, regs, saved, pre, words, orig, read_pos,
                   write_pos, pos, bufcap, result, sent, rcvd, lastPoll, sawFault, nblocks,
                   rdchk>>

InitFifo == Constructed("fifo")

NextFifo ==
    \/ Transfer8CallFifo
    \/ T8Outer
    \/ T8Fill
    \/ T8Read
    \/ T8Drain
    \/ T8Final
    \/ HwShift

SpecFifo == InitFifo /\ [][NextFifo]_vars

-----------------------------------------------------------------------------
(* write<u8> against a unit with a transmit FIFO that the unit drains. *)

\* Slots of the transmit FIFO: the four bytes the FIFO levels count.
TxDepth == 4

\* write(words), on buffers longer than the FIFO.
Write8CallTx ==
    /\ pc = "idle"
    /\ width = "EightBit"
    /\ \E buf \in FifoBuffers : StartCall(buf, 1)
    /\ cr1' = set_send_only(cr1)
    /\ op' = "write8"
    /\ trail' = "write"
    /\ pc' = "w8_init"
    /\ pre' = <<>>
    /\ UNCHANGED <<fixed, width, rcc, cr2, saved>>

\* The unit shifts the oldest element out of the transmit FIFO.
HwDrain ==
    /\ hw = "txfifo"
    /\ txq # <<>>
    /\ txq' = Tail(txq)
    /\ UNCHANGED <<pc, op, trail, fixed, width, regs, saved, pre, words, orig, read_pos,
                   write_pos, pos, bufcap, result, sent, rcvd, rxq, ovrflag, lastPoll,
                   sawFault, nblocks, rdchk>>

InitTx == Constructed("txfifo")

NextTx ==
    \/ Write8CallTx
    \/ W8Init
    \/ W8Loop
    \/ W8Final
    \/ HwDrain

SpecTx == InitTx /\ [][NextTx]_vars

-----------------------------------------------------------------------------
(* The four transfer operations on hardware that raises no fault and is fair. *)

InitLive == Constructed("calm")

NextLive ==
    \/ Transfer8Call
    \/ T8Outer
    \/ T8Fill
    \/ T8Read
    \/ T8Drain
    \/ T8Final
    \/ Write8Call
    \/ W8Init
    \/ W8Loop
    \/ W8Final
    \/ Transfer16Call
    \/ T16Loop
    \/ T16Send
    \/ T16Recv
    \/ Write16Call
    \/ W16Loop
    \/ W16Send
    \/ W16Final
    \/ Into8BitWidth
    \/ Into16BitWidth

\* Elements of the running call remain unsent; an element sent has not been read.
Unsent == pc # "idle" /\ Len(sent) < Len(orig)
Unread == pc # "idle" /\ Len(rcvd) < Len(sent)

\* The steps the driver takes whatever the status register reads: loop heads, the
\* passes of the two inner loops and the final status read of transfer<u8>, and the
\* sends of write<u8> within the capacity last read.
DriverStep ==
    \/ T8Outer
    \/ T8Fill
    \/ T8Read
    \/ T8Drain
    \/ T8Final
    \/ T16Loop
    \/ W16Loop
    \/ (W8Loop /\ (pos >= Len(words) \/ bufcap > 0))

\* A send-ready poll succeeds while elements remain unsent.
SendReady ==
    /\ Unsent
    /\ T8Fill \/ W8Init \/ T16Send \/ W16Send
    /\ lastPoll' = [chk |-> "send", res |-> "Ok"]

\* A read of the send capacity is non-zero while elements remain unsent.
CapacityReady ==
    /\ Unsent
    /\ W8Loop
    /\ bufcap = 0
    /\ bufcap' > 0

\* A receive-ready poll succeeds while an element sent has not been read.
RecvReady ==
    /\ Unread
    /\ T8Read \/ T16Recv
    /\ lastPoll' = [chk |-> "read", res |-> "Ok"]

\* A send-ready poll succeeds at a wait of a write that no element remains unsent at.
IdleBusReady ==
    /\ ~Unsent
    /\ W8Init \/ W8Final \/ W16Final
    /\ lastPoll' = [chk |-> "send", res |-> "Ok"]

SpecLive ==
    /\ InitLive
    /\ [][NextLive]_vars
    /\ WF_vars(DriverStep)
    /\ SF_vars(SendReady)
    /\ SF_vars(CapacityReady)
    /\ SF_vars(RecvReady)

-----------------------------------------------------------------------------
(* The fault detector alone: one poll of each check on a given status snapshot. *)

\* self.check_send() on a status register that reads snap.
PollSend ==
    /\ pc = "idle"
    /\ lastPoll' = [chk |-> "send", res |-> check_send(snap)]
    /\ sawFault' = Saw(observed(snap))
    /\ UNCHANGED <<pc, op, trail, fixed, width, regs, saved, pre, words, orig, read_pos,
                   write_pos, pos, bufcap, result, sent, rcvd, rxq, txq, ovrflag, nblocks,
                   rdchk>>

\* self.check_read() on a status register that reads snap.
PollRead ==
    /\ pc = "idle"
    /\ lastPoll' = [chk |-> "read", res |-> check_read(snap)]
    /\ sawFault' = Saw(observed(snap))
    /\ rdchk' = TRUE
    /\ UNCHANGED <<pc, op, trail, fixed, width, regs, saved, pre, words, orig, read_pos,
                   write_pos, pos, bufcap, result, sent, rcvd, rxq, txq, ovrflag, nblocks>>

InitPoll == Built("free") /\ snap \in StatusRegs

NextPoll ==
    \/ PollSend
    \/ PollRead

SpecPoll == InitPoll /\ [][NextPoll]_vars

-----------------------------------------------------------------------------
(* Claims about the transfer operations. *)

\* Operation o has returned.
Returned(o) == pc = "idle" /\ op = o /\ result # "none"

Writes == {"write8", "write16"}

\* C1: whenever the 8-bit full-duplex transfer returns success, exactly N elements were
\* written to the data register, the i-th write carrying the original buffer[i], and
\* buffer[i] holds the i-th value read from the data register, for every i < N.
C1_Transfer8 ==
    (Returned("transfer8") /\ result = "Ok") =>
        /\ sent = orig
        /\ Len(rcvd) = Len(orig)
        /\ words = rcvd

\* A successful transfer of two different elements that received other values.
C1_Witness ==
    /\ Returned("transfer8")
    /\ result = "Ok"
    /\ orig = <<0, 1>>
    /\ sent = <<0, 1>>
    /\ words = <<1, 0>>

\* C2: in the 8-bit full-duplex transfer, a status poll that observes the overrun bit
\* (or, overrun clear, the mode-fault bit) makes the call return that fault at once:
\* once a poll of the call has seen a fault, the call has returned it.
C2_FaultAborts ==
    (op = "transfer8" /\ sawFault # "none") => (pc = "idle" /\ result = sawFault)

\* The receive side has stalled: every element is sent, one is still to be received.
Stalled ==
    /\ op = "transfer8"
    /\ pc # "idle"
    /\ Len(words) >= 1
    /\ write_pos = Len(words)
    /\ read_pos < Len(words)

\* C3: if the receive-ready check never becomes true after all N >= 1 elements were
\* transmitted and no overrun bit is set, the 8-bit full-duplex transfer terminates
\* and returns IncompleteTransfer.
C3_IncompleteTransfer ==
    Stalled ~> (Returned("transfer8") /\ result = "IncompleteTransfer")

\* C7 as stated: a send-only write of an empty buffer, of either width and whatever the
\* status register holds, returns success and performs no status-register poll other
\* than one initial send-ready block.
C7_Original ==
    (op \in Writes /\ orig = <<>>) =>
        /\ nblocks <= 1
        /\ lastPoll.chk \in {"none", "send"}
        /\ result # "none" => result = "Ok"

\* C7 amended: a send-only write of an empty buffer polls the status register only
\* through send-ready blocks; the 16-bit write makes one (the final one, whose outcome
\* is ignored) and returns success; the 8-bit write makes two (the initial and the final
\* one) and returns success unless the initial block sees overrun or mode fault, which
\* it returns at once.
C7_Amended ==
    (op \in Writes /\ orig = <<>>) =>
        /\ lastPoll.chk \in {"none", "send"}
        /\ ~rdchk
        /\ sent = <<>>
        /\ op = "write16" =>
             /\ nblocks <= 1
             /\ result # "none" => (result = "Ok" /\ nblocks = 1)
        /\ op = "write8" =>
             /\ nblocks \in 1..2
             /\ result # "none" =>
                  \/ /\ result = "Ok"
                     /\ nblocks = 2
                     /\ sawFault # "none" => lastPoll.res = sawFault
                  \/ /\ result \in Faults
                     /\ nblocks = 1
                     /\ lastPoll.res = result
                     /\ sawFault = result

\* An empty 8-bit write that succeeded after two blocks, one that failed in the first,
\* or an empty 16-bit write that succeeded although its only block saw overrun.
C7_Witness ==
    /\ op \in Writes
    /\ orig = <<>>
    /\ pc = "idle"
    /\ \/ op = "write8" /\ result = "Ok" /\ nblocks = 2 /\ sawFault = "Overrun"
       \/ op = "write16" /\ result = "Ok" /\ nblocks = 1 /\ sawFault = "Overrun"

\* C8 as stated: on success a send-only write has written each of the N elements to the
\* data register once, in buffer order; the receive-ready check is never invoked, the
\* data register never read, and a set overrun flag does not make the write fail.
C8_Original ==
    op \in Writes =>
        /\ ~rdchk
        /\ rcvd = <<>>
        /\ result = "Ok" => sent = orig
        /\ result # "Overrun"

\* C8 amended: on success a send-only write has written each of the N elements to the
\* data register once, in buffer order; the receive-ready check is never invoked and the
\* data register never read; the overrun and mode-fault flags are monitored by the
\* send-ready blocks before the final one (8-bit: the initial block; 16-bit: the block
\* before each element), which fail the write with that fault, the elements before it
\* sent; only the final block ignores a fault.
C8_Amended ==
    op \in Writes =>
        /\ ~rdchk
        /\ rcvd = <<>>
        /\ words = orig
        /\ result # "none" =>
             \/ /\ result = "Ok"
                /\ sent = orig
                /\ sawFault # "none" => lastPoll.res = sawFault
             \/ /\ result \in Faults
                /\ lastPoll = [chk |-> "send", res |-> result]
                /\ sawFault = result
                /\ Len(sent) < Len(orig) \/ op = "write8"
                /\ sent = SubSeq(orig, 1, Len(sent))
                /\ op = "write8" => sent = <<>>

\* A 16-bit write that failed with Overrun after its first element, and a successful
\* 8-bit write of two elements.
C8_Witness ==
    /\ op \in Writes
    /\ pc = "idle"
    /\ \/ op = "write16" /\ result = "Overrun" /\ orig = <<0, 1>> /\ sent = <<0>>
       \/ op = "write8" /\ result = "Ok" /\ orig = <<0, 1>> /\ sent = <<0, 1>>

\* C9: with the handle wired back to itself with no delay, send-ready and receive-ready
\* reported at once and no fault, a full-duplex transfer of either width returns
\* success and leaves the buffer as it was, element for element.
C9_Loopback ==
    \A o \in {"transfer8", "transfer16"} :
        Returned(o) =>
            /\ result = "Ok"
            /\ words = orig
            /\ sent = orig
            /\ rcvd = orig
            /\ rxq = <<>>

\* A loopback transfer of two different elements has returned.
C9_Witness ==
    /\ hw = "loopback"
    /\ pc = "idle"
    /\ op \in {"transfer8", "transfer16"}
    /\ result = "Ok"
    /\ orig = <<0, 1>>
    /\ rcvd = <<0, 1>>

\* C10: when reset returns, both control registers hold exactly the values they held
\* when it was called, the enable bit included.
C10_ResetRestores ==
    (pc = "idle" /\ op = "reset") =>
        /\ cr1 = pre[1]
        /\ cr2 = pre[2]
        /\ cr1.spe = pre[1].spe

\* reset has returned on an enabled handle left in send-only mode by a write.
C10_Witness ==
    /\ pc = "idle"
    /\ op = "reset"
    /\ rcc = [en |-> TRUE, rst |-> FALSE]
    /\ cr1.spe
    /\ cr1.bidimode
    /\ cr1.mstr
    /\ cr2.frxth
    /\ cr1 # Cr1Reset

-----------------------------------------------------------------------------
(* Claims about the clock divisor and the construction (SpecCtor). *)

RECURSIVE Pow2(_)
Pow2(n) == IF n = 0 THEN 1 ELSE 2 * Pow2(n - 1)

\* spi_init has programmed the divisor of a controller.
DivisorProgrammed ==
    role = "controller" /\ pc \in {"ctor_width", "ctor_enable", "idle"}

\* The effective rate f_in / 2^(k+1) does not exceed f_req (exact arithmetic).
RateWithin(k) == pclk <= speed * Pow2(k + 1)

\* The effective rate f_in / 2^(k+1) is strictly below 1.5 * f_req (exact arithmetic).
RateBelowOneAndAHalf(k) == 2 * pclk < 3 * speed * Pow2(k + 1)

\* C4 as stated: for 0 < f_req <= f_in the programmed selector k gives an effective
\* rate f_in / 2^(k+1) that does not exceed f_req, and k is the smallest such selector.
C4_Original ==
    (DivisorProgrammed /\ 0 < speed /\ speed <= pclk) =>
        /\ RateWithin(cr1.br)
        /\ \A j \in 0..(cr1.br - 1) : ~RateWithin(j)

\* C4 amended: for 0 < f_req <= f_in the programmed selector k is the smallest selector
\* in 0..7 whose effective rate f_in / 2^(k+1) is strictly below 1.5 * f_req, and is 7
\* when no selector achieves that; the rate may exceed f_req.
C4_Amended ==
    (DivisorProgrammed /\ 0 < speed /\ speed <= pclk) =>
        /\ cr1.br \in 0..7
        /\ \A j \in 0..(cr1.br - 1) : ~RateBelowOneAndAHalf(j)
        /\ cr1.br < 7 => RateBelowOneAndAHalf(cr1.br)

\* A divisor whose rate exceeds the requested rate while staying below 1.5 times it.
C4_Witness ==
    /\ DivisorProgrammed
    /\ pclk = 23
    /\ speed = 2
    /\ cr1.br = 2
    /\ ~RateWithin(cr1.br)
    /\ RateBelowOneAndAHalf(cr1.br)

\* The module example has been constructed: 48 MHz input clock, 1 MHz requested.
ExampleConstructed ==
    /\ pc = "idle"
    /\ op = "spi1"
    /\ mode = ExampleMode
    /\ pclk = ExamplePclk
    /\ speed = ExampleSpeed

\* C5 as stated: the example construction (idle-high, capture on second edge, 1 MHz
\* from 48 MHz) programs the baud-rate divisor field with selector 4.
C5_Original == ExampleConstructed => cr1.br = 4

\* C5 amended: the example construction programs the baud-rate divisor field with
\* selector 5, the bucket of ratio 48 (48..95).
C5_Amended == ExampleConstructed => cr1.br = 5

\* The example handle, enabled, with its mode bits and divisor programmed.
C5_Witness ==
    /\ ExampleConstructed
    /\ cr1.spe
    /\ cr1.cpol
    /\ cr1.cpha
    /\ cr1.mstr
    /\ pclk \div speed = 48
    /\ cr1.br = 5

\* The lower ends of the buckets 1..7 of the ratio.
BucketStarts == {3, 6, 12, 24, 48, 96, 192}

\* C6: the programmed selector is a function of the integer ratio r = f_in div f_req
\* alone and, for r >= 1, is the bucket of r (1..2 -> 0, 3..5 -> 1, 6..11 -> 2,
\* 12..23 -> 3, 24..47 -> 4, 48..95 -> 5, 96..191 -> 6, 192.. -> 7): the number of
\* bucket starts that r has reached; it fits in 3 bits and does not decrease with r.
C6_Buckets ==
    DivisorProgrammed =>
        LET r == pclk \div speed IN
        /\ r >= 1
        /\ cr1.br = Cardinality({t \in BucketStarts : t <= r})
        /\ cr1.br \in 0..7
        /\ r > 1 => br(r - 1, 1) <= cr1.br

\* A ratio in the last bucket and one at the start of a middle bucket are programmed.
C6_Witness ==
    /\ DivisorProgrammed
    /\ pclk \div speed = 192
    /\ speed = 2
    /\ cr1.br = 7

-----------------------------------------------------------------------------
(* Claims about reset, the construction and the width conversions. *)

\* C11 as stated: when reset is called on an enabled handle, the enable bit is clear
\* when reset returns.
C11_Original ==
    (pc = "idle" /\ op = "reset" /\ pre[1].spe) => ~cr1.spe

\* C11, amended: when reset is called on an enabled handle, the enable bit is clear
\* from the assertion of the reset line until the last register write of reset, and
\* that write sets it again: reset returns with the unit enabled, enable not invoked.
C11_Amended ==
    (op = "reset" /\ pre[1].spe) =>
        /\ pc \in {"rst_clear", "rst_cr2", "rst_cr1"} => ~cr1.spe
        /\ pc = "rst_cr1" => saved[1].spe
        /\ pc = "idle" => cr1.spe

\* reset has returned on a handle that was enabled when it was called, and the last
\* poll-free call before it was reset itself: enable did not run in between.
C11_Witness ==
    /\ pc = "idle"
    /\ op = "reset"
    /\ pre[1].spe
    /\ cr1.spe
    /\ saved = <<>>
    /\ rcc = [en |-> TRUE, rst |-> FALSE]

\* The first control register of a constructed handle, field by field: the role flag,
\* slave management and the divisor depend on the role, the rest does not.
ConfiguredCr1(r, m, b, e) ==
    [cpha     |-> (m.phase = "CaptureOnSecondTransition"),
     cpol     |-> (m.polarity = "IdleHigh"),
     mstr     |-> (r = "controller"),
     br       |-> IF r = "controller" THEN b ELSE 0,
     lsbfirst |-> FALSE,
     ssm      |-> (r = "controller"),
     ssi      |-> (r = "controller"),
     rxonly   |-> FALSE,
     bidimode |-> FALSE,
     bidioe   |-> FALSE,
     spe      |-> e]

\* C12: in both constructors the reset pulse is over, and has put the registers at
\* their reset values, before the first control-register write; every control-field
\* write happens with the enable bit clear; when only the write of the enable bit is
\* left every control field has its final value; the handle is returned enabled, 8-bit
\* wide, the controller with role flag, software slave management and internal select
\* set, MSB first, receive-only and bidirectional mode off, the peripheral with role
\* flag and slave management (internal select included) clear and divisor 0.
C12_Lifecycle ==
    /\ pc \in {"ctor_disable", "ctor_init", "ctor_width", "ctor_enable", "idle"} =>
           rcc = [en |-> TRUE, rst |-> FALSE]
    /\ pc = "ctor_disable" => cr1 = Cr1Reset /\ cr2 = Cr2Reset
    /\ pc \in {"ctor_init", "ctor_width", "ctor_enable"} => ~cr1.spe
    /\ pc = "ctor_width" => cr2 = Cr2Reset
    /\ pc \in {"ctor_width", "ctor_enable"} =>
           \E b \in 0..7 : cr1 = ConfiguredCr1(role, mode, b, FALSE)
    /\ pc \in {"ctor_enable", "idle"} =>
           /\ cr2 = [frxth |-> TRUE, ds |-> "eight_bit", ssoe |-> FALSE]
           /\ width = "EightBit"
    /\ pc = "idle" =>
           /\ \E b \in 0..7 : cr1 = ConfiguredCr1(role, mode, b, TRUE)
           /\ role = "controller" => cr1.br = br(pclk, speed)

\* The peripheral constructor has returned its handle, on a register interface it
\* found programmed and enabled.
C12_Witness ==
    /\ pc = "idle"
    /\ op = "spi1_slave"
    /\ role = "peripheral"
    /\ cr1.spe
    /\ ~cr1.mstr
    /\ ~cr1.ssm
    /\ cr1.br = 0
    /\ cr2.frxth
    /\ mode.phase = "CaptureOnSecondTransition"

\* C13: when a width conversion has returned, the second control register holds the
\* data size of the new width, the receive threshold for elements of the new width,
\* and a clear slave-select output enable.
C13_ThresholdMatches ==
    (pc = "idle" /\ op \in {"into_8bit_width", "into_16bit_width"}) =>
        /\ cr2.ds = (IF width = "EightBit" THEN "eight_bit" ELSE "sixteen_bit")
        /\ cr2.frxth = frxth_for(width)
        /\ ~cr2.ssoe

\* A step in which a width conversion is called and returns.
Converts == pc = "idle" /\ pc' = "idle" /\ op' \in {"into_8bit_width", "into_16bit_width"}

\* C14: no width conversion changes the first control register, the enable bit
\* included, and the conversion that completes a chain to 8-bit, to 16-bit, to 8-bit,
\* whatever the handle went through before the chain, leaves data size and receive
\* threshold as the constructor of an 8-bit handle leaves them.
C14_RoundTrip ==
    [][Converts =>
          /\ cr1' = cr1
          /\ trail' = "8,16,8" =>
                 /\ cr2'.ds = "eight_bit"
                 /\ cr2'.frxth = TRUE
                 /\ width' = "EightBit"]_vars

\* The chain has run on a handle that a write had left in send-only mode.
C14_Witness ==
    /\ pc = "idle"
    /\ op = "into_8bit_width"
    /\ trail = "8,16,8"
    /\ cr1.spe
    /\ cr1.bidimode
    /\ cr1.bidioe
    /\ cr2 = [frxth |-> TRUE, ds |-> "eight_bit", ssoe |-> FALSE]

-----------------------------------------------------------------------------
(* Claims about the direction mode and the cursors of the transfers. *)

Transfers == {"transfer8", "transfer16"}

\* A step of a transfer or write call: the call itself, or one of its polls.
TransferStep == op' \in Transfers \cup Writes /\ (pc # "idle" \/ pc' # "idle")

\* C15: a step of a transfer or write call changes no control-register field but the
\* bidirectional-mode and output-enable bits of the first control register; it changes
\* those only in the step that starts the call, before any data-register access, and
\* from then on both are clear in a full-duplex transfer and both set in a write,
\* whatever call ran before.
C15_DirectionOnly ==
    [][TransferStep =>
          /\ cr2' = cr2
          /\ width' = width
          /\ rcc' = rcc
          /\ [cr1' EXCEPT !.bidimode = cr1.bidimode, !.bidioe = cr1.bidioe] = cr1
          /\ pc # "idle" => cr1' = cr1
          /\ pc = "idle" => sent' = <<>> /\ rcvd' = <<>>
          /\ cr1'.bidimode = (op' \in Writes)
          /\ cr1'.bidioe = (op' \in Writes)
          /\ cr1'.spe = cr1.spe]_vars

\* A full-duplex transfer issued right after a write has accessed the data register.
C15_Witness ==
    /\ trail = "write,transfer"
    /\ op \in Transfers
    /\ sent # <<>>
    /\ ~cr1.bidimode
    /\ ~cr1.bidioe
    /\ cr1.spe

\* C16: at every step of the 8-bit full-duplex transfer, whatever the polls return,
\* read_pos <= write_pos <= N; a step moves each cursor by zero or one; the buffer
\* changes only by the store of a value read from the data register, into the slot at
\* read_pos, which is below write_pos: its original value has been sent.
C16_Cursors ==
    [][op' = "transfer8" =>
          /\ read_pos' <= write_pos'
          /\ write_pos' <= Len(words')
          /\ Len(words') = Len(orig')
          /\ pc # "idle" =>
                 /\ read_pos' \in {read_pos, read_pos + 1}
                 /\ write_pos' \in {write_pos, write_pos + 1}
                 /\ orig' = orig
                 /\ IF rcvd' = rcvd
                      THEN words' = words /\ read_pos' = read_pos
                      ELSE /\ read_pos < write_pos
                           /\ read_pos' = read_pos + 1
                           /\ Len(rcvd') = Len(rcvd) + 1
                           /\ words' = [words EXCEPT ![read_pos + 1] = rcvd'[Len(rcvd')]]
                           /\ Len(sent) >= read_pos + 1
                           /\ sent[read_pos + 1] = orig[read_pos + 1]]_vars

\* The transfer has sent two elements and stored over the first, changing it, while
\* the second is still unread.
C16_Witness ==
    /\ op = "transfer8"
    /\ pc # "idle"
    /\ read_pos = 1
    /\ write_pos = 2
    /\ words[1] # orig[1]
    /\ words[2] = orig[2]
    /\ sawFault # "none"

\* C17: at every step of the 16-bit full-duplex transfer the elements sent are the
\* original buffer's first ones in order, at most one of them is unread, and none when
\* the next send is awaited; the buffer holds the values read, in order, followed by
\* the original values of the elements not yet read; and once a poll has reported
\* Overrun or ModeFault the call has returned exactly that fault, the data register
\* not accessed since.
C17_Lockstep ==
    op = "transfer16" =>
        /\ Len(sent) - Len(rcvd) \in {0, 1}
        /\ pc \in {"t16_loop", "t16_send"} => Len(sent) = Len(rcvd)
        /\ pc = "t16_recv" => Len(sent) = Len(rcvd) + 1
        /\ pos = Len(rcvd)
        /\ Len(sent) <= Len(orig)
        /\ sent = SubSeq(orig, 1, Len(sent))
        /\ words = rcvd \o SubSeq(orig, Len(rcvd) + 1, Len(orig))
        /\ sawFault # "none" => pc = "idle" /\ result = sawFault
        /\ result \in Faults => sawFault = result /\ lastPoll.res = result
        /\ result = "Ok" => Len(rcvd) = Len(orig)

\* The receive-ready poll of the second element reported Overrun: the call returned
\* it, the first element holding the value read, the second its original value.
C17_Witness ==
    /\ Returned("transfer16")
    /\ result = "Overrun"
    /\ lastPoll = [chk |-> "read", res |-> "Overrun"]
    /\ orig = <<0, 1>>
    /\ sent = <<0, 1>>
    /\ rcvd = <<1>>
    /\ words = <<1, 1>>

-----------------------------------------------------------------------------
(* Claims about the fault detector (SpecPoll). *)

\* The readiness condition a check consults.
Ready(chk, sr) == IF chk = "send" THEN sr.txe /\ ~sr.bsy ELSE sr.rxne

\* C18: on every status snapshot, either check returns Overrun when the overrun bit is
\* set, else ModeFault when the mode-fault bit is set, else Ok exactly when its
\* readiness condition holds, else WouldBlock; Ok and WouldBlock come only with both
\* fault bits clear; the fault returned depends on the snapshot alone, not on the check.
C18_FaultDetector ==
    lastPoll.chk \in {"send", "read"} =>
        /\ snap.ovr => lastPoll.res = "Overrun"
        /\ (~snap.ovr /\ snap.modf) => lastPoll.res = "ModeFault"
        /\ (~snap.ovr /\ ~snap.modf) =>
               lastPoll.res = (IF Ready(lastPoll.chk, snap) THEN "Ok" ELSE "WouldBlock")
        /\ lastPoll.res \in {"Ok", "WouldBlock"} => ~snap.ovr /\ ~snap.modf
        /\ lastPoll.res \in Faults <=> sawFault = lastPoll.res
        /\ lastPoll.res \notin Faults <=> sawFault = "none"

\* The receive-ready check has run on a snapshot with both fault bits and
\* receive-not-empty set, and returned Overrun.
C18_Witness ==
    /\ lastPoll = [chk |-> "read", res |-> "Overrun"]
    /\ snap.ovr
    /\ snap.modf
    /\ snap.rxne
    /\ sawFault = "Overrun"

-----------------------------------------------------------------------------
(* Claims about the transfers and the hardware process. *)

\* C19: while the 8-bit full-duplex transfer runs against the FIFO hardware, in every
\* interleaving of the shifts with the polls, overrun is never raised: every element
\* delivered found room in the receive FIFO.
C19_NoOverflow ==
    hw = "fifo" => ~ovrflag /\ Len(rxq) <= RxDepth

Running == pc # "idle" /\ op \in Transfers \cup Writes

\* C20 as stated: on hardware that raises no fault, reports send-ready (non-zero send
\* capacity) again and again while elements remain unsent and receive-ready again and
\* again while an element sent is unread, every transfer and write call eventually
\* returns success.
C20_Original ==
    Running ~> (pc = "idle" /\ result = "Ok")

\* C20, amended: if the hardware also reports send-ready again and again at the waits
\* of a write at which no element remains unsent (the final wait of both writes, and
\* the initial wait of an 8-bit write of an empty buffer), every transfer and write
\* call eventually returns success; full-duplex transfers need no such addition.
C20_Amended ==
    /\ (Running /\ op \in Transfers) ~> (pc = "idle" /\ result = "Ok")
    /\ SF_vars(IdleBusReady) => (Running ~> (pc = "idle" /\ result = "Ok"))

\* A 16-bit write of two elements has returned success on the fair hardware, its last
\* poll the final send-ready wait.
C20_Witness ==
    /\ hw = "calm"
    /\ Returned("write16")
    /\ result = "Ok"
    /\ sent = <<0, 1>>
    /\ lastPoll = [chk |-> "send", res |-> "Ok"]

\* The capacity estimate per level: 4, 3, 2 for levels 0, 1, 2 and none for level 3.
Estimate(lvl) == <<4, 3, 2, 0>>[lvl + 1]

\* C21: while the 8-bit write runs against the draining transmit FIFO, in every
\* interleaving of drains with the driver's steps: the FIFO never holds more than its
\* four slots and the remaining estimate never exceeds the free slots; the level is
\* re-read only when the estimate is 0 and gives the estimate of the level read; an
\* element is written only with a non-zero estimate, into a FIFO that is not full, and
\* uses up one unit of the estimate.
C21_NeverFull ==
    [][(hw = "txfifo" /\ op' = "write8") =>
          /\ Len(txq') <= TxDepth
          /\ bufcap' <= TxDepth - Len(txq')
          /\ (pc = "w8_loop" /\ pos' = pos /\ bufcap' # bufcap) =>
                 /\ bufcap = 0
                 /\ bufcap' = Estimate(TxLevel(Len(txq)))
                 /\ txq' = txq
          /\ (pc # "idle" /\ pos' # pos) =>
                 /\ pc = "w8_loop"
                 /\ pos' = pos + 1
                 /\ bufcap > 0
                 /\ bufcap' = bufcap - 1
                 /\ Len(txq) < TxDepth
                 /\ txq' = Append(txq, orig[pos + 1])
          /\ (pc # "idle" /\ pos' = pos /\ txq' # txq) => txq' = Tail(txq)]_vars

\* Four elements filled the FIFO, the unit drained two, the driver read level 2 and
\* wrote the fifth element with one unit of its estimate left.
C21_Witness ==
    /\ hw = "txfifo"
    /\ op = "write8"
    /\ pc = "w8_loop"
    /\ Len(orig) = 5
    /\ pos = 5
    /\ Len(txq) = 3
    /\ bufcap = 1

====
